---- MODULE Spec2Model ----
(***************************************************************************)
(* WebPage2PDF Bundle: the batch conversion of src/webpage2pdf_bundle.py.  *)
(*                                                                         *)
(* The GUI thread runs start_conversion, cancel_conversion and the polled  *)
(* check_futures callback; the worker threads of each run's                *)
(* ThreadPoolExecutor run process_url.  Strings are sequences of           *)
(* one-character strings, so that strip, str(i), urlparse and the file     *)
(* name formats are computed character by character.                       *)
(***************************************************************************)
EXTENDS Integers, Sequences, FiniteSets, TLC

VARIABLES
    cancel_event,    \* the global threading.Event
    start_button,    \* "normal" | "disabled"
    cancel_button,   \* "normal" | "disabled"
    progress,        \* progress_bar: [value, maximum]
    runs,            \* one record per start_conversion that submitted tasks
    files,           \* the paths that exist on disk
    dialog,          \* the last messagebox / completion message shown
    attempt          \* the form values read by the last start_conversion

vars == <<cancel_event, start_button, cancel_button, progress, runs, files,
          dialog, attempt>>

----------------------------------------------------------------------------
(* Bounds of the model.                                                    *)

MaxRows == 2        \* rows of the CSV file of a run whose tasks are followed
MaxCsvRows == 3     \* rows of a CSV file whose reading is checked
MaxStarts == 2      \* presses of the Start button
MaxWorkers == 2     \* largest Max Workers entry tried

----------------------------------------------------------------------------
(* Strings.                                                                *)

Digit(d) == <<"0", "1", "2", "3", "4", "5", "6", "7", "8", "9">>[d + 1]

\* str(i) / f"{i}" of a non-negative integer
RECURSIVE IntToStr(_)
IntToStr(i) == IF i < 10 THEN <<Digit(i)>>
               ELSE IntToStr(i \div 10) \o <<Digit(i % 10)>>

\* strftime("%Y%m%d%H%M%S"): a fixed width of TimestampWidth digits; the clock
\* value t stands for the seconds since the run began
TimestampWidth == 14
RECURSIVE ZeroPad(_, _)
ZeroPad(s, w) == IF Len(s) >= w THEN s ELSE ZeroPad(<<"0">> \o s, w)
Strftime(t) == ZeroPad(IntToStr(t), TimestampWidth)

\* str.strip(): leading and trailing whitespace removed
RECURSIVE LStrip(_)
LStrip(s) == IF s # << >> /\ Head(s) = " " THEN LStrip(Tail(s)) ELSE s
RECURSIVE RStrip(_)
RStrip(s) == IF s # << >> /\ s[Len(s)] = " " THEN RStrip(SubSeq(s, 1, Len(s) - 1))
             ELSE s
Strip(s) == RStrip(LStrip(s))

StartsWith(s, p) == Len(s) >= Len(p) /\ SubSeq(s, 1, Len(p)) = p

\* str.replace(old, ""): every non-overlapping occurrence, left to right
RECURSIVE RemoveAll(_, _)
RemoveAll(s, old) ==
    IF s = << >> THEN << >>
    ELSE IF StartsWith(s, old) THEN RemoveAll(SubSeq(s, Len(old) + 1, Len(s)), old)
    ELSE <<Head(s)>> \o RemoveAll(Tail(s), old)

\* index of the first character of s that is in the set cs, Len(s) + 1 if none
RECURSIVE FindFirst(_, _, _)
FindFirst(s, cs, k) == IF k > Len(s) THEN k
                       ELSE IF s[k] \in cs THEN k ELSE FindFirst(s, cs, k + 1)

Contains(s, c) == \E k \in 1..Len(s) : s[k] = c

SchemeChars == {"h", "t", "p", "s", "f"}

\* urllib.parse.urlsplit: the text after an optional "scheme:" ; the netloc is
\* what follows a leading "//" up to the first of "/", "?", "#"
UrlRest(url) ==
    LET c == FindFirst(url, {":"}, 1)
    IN  IF c <= Len(url) /\ c > 1 /\ \A k \in 1..(c - 1) : url[k] \in SchemeChars
        THEN SubSeq(url, c + 1, Len(url))
        ELSE url

UrlNetloc(url) ==
    LET rest == UrlRest(url)
    IN  IF StartsWith(rest, <<"/", "/">>)
        THEN SubSeq(rest, 3, FindFirst(rest, {"/", "?", "#"}, 3) - 1)
        ELSE << >>

\* urlsplit raises ValueError("Invalid IPv6 URL") on an unbalanced bracket
UrlparseRaises(url) ==
    LET n == UrlNetloc(url)
    IN  Contains(n, "[") # Contains(n, "]")

StrPage == <<"p", "a", "g", "e">>
StrPdf == <<".", "p", "d", "f">>
StrWww == <<"w", "w", "w", ".">>

----------------------------------------------------------------------------
(* Output paths (start_conversion, the submit loop).                       *)

TempFolder == "temp_pdfs"      \* os.path.join(os.getcwd(), "temp_pdfs")
Cwd == "cwd"                   \* os.getcwd()

\* f"page_{i}.pdf"
MergedName(i) == StrPage \o <<"_">> \o IntToStr(i) \o StrPdf

\* domain = parsed.netloc.replace("www.", ""); "page" if empty or on an exception
BaseName(url) ==
    IF UrlparseRaises(url) THEN StrPage
    ELSE LET domain == RemoveAll(UrlNetloc(url), StrWww)
         IN  IF domain # << >> THEN domain ELSE StrPage

\* variant: the domain alone names the file
DomainNameNoSuffix(url, i) == BaseName(url) \o StrPdf

\* f"{base_name}_{i}.pdf"
DomainName(url, i) == BaseName(url) \o <<"_">> \o IntToStr(i) \o StrPdf

\* f"page_{i}_{timestamp}.pdf"
TimestampName(i, t) ==
    StrPage \o <<"_">> \o IntToStr(i) \o <<"_">> \o Strftime(t) \o StrPdf

\* the output_path of row i; t is datetime.now() when the row is submitted
OutputPath(mode, scheme, output_dir, url, i, t) ==
    IF mode = "merged"
    THEN [dir |-> TempFolder, name |-> MergedName(i)]
    ELSE IF scheme = "Website Domain"
    THEN [dir |-> output_dir, name |-> DomainName(url, i)]
    ELSE [dir |-> output_dir, name |-> TimestampName(i, t)]

----------------------------------------------------------------------------
(* Reading the CSV (start_conversion).                                     *)

\* variant: the header box is ignored
SkipHeaderNever(rows, header) == rows

\* rows[1:] when the header box is ticked and there are rows
SkipHeader(rows, header) == IF header /\ rows # << >> THEN Tail(rows) ELSE rows

\* row[col_index] raises IndexError for a negative index before the first cell
IndexRaises(row, c) == c < 0 /\ Len(row) + c < 0
RowGet(row, c) == IF c >= 0 THEN row[c + 1] ELSE row[Len(row) + c + 1]

\* the rows that pass "if len(row) > col_index"
RowSelected(row, c) == Len(row) > c

RECURSIVE ExtractUrls(_, _)
ExtractUrls(rows, c) ==
    IF rows = << >> THEN << >>
    ELSE IF RowSelected(Head(rows), c)
         THEN <<Strip(RowGet(Head(rows), c))>> \o ExtractUrls(Tail(rows), c)
         ELSE ExtractUrls(Tail(rows), c)

\* the try block: open() fails, int() fails, or row[col_index] fails
ReadRaises(inp) ==
    \/ ~inp.csv_readable
    \/ ~inp.col_numeric
    \/ \E k \in 1..Len(SkipHeader(inp.rows, inp.header)) :
          LET row == SkipHeader(inp.rows, inp.header)[k]
          IN  RowSelected(row, inp.col) /\ IndexRaises(row, inp.col)

ReadUrls(inp) == ExtractUrls(SkipHeader(inp.rows, inp.header), inp.col)

----------------------------------------------------------------------------
(* The state of one run: the closure of check_futures (mode, output_paths, *)
(* futures, executor, total_urls) and what happened to its tasks.          *)

Indices(run) == 1..run.total

Running(run) == {i \in Indices(run) : run.task[i] = "running"}
Pending(run) == {i \in Indices(run) : run.task[i] = "pending"}
Done(run) == {i \in Indices(run) : run.task[i] = "done"}

\* variant: only the conversions that wrote their file are counted
CompletedSuccessfully(run) ==
    Cardinality({i \in Indices(run) : run.result[i] = "ok"})

\* sum(1 for f in futures if f.done())
Completed(run) == Cardinality(Done(run))

NewRun(n, inp, urls, paths) ==
    [mode |-> inp.mode, scheme |-> inp.scheme, urls |-> urls,
     total |-> Len(urls), output_paths |-> paths, max_workers |-> inp.workers,
     task |-> [i \in 1..Len(urls) |-> "pending"],
     result |-> [i \in 1..Len(urls) |-> "none"],
     poll |-> TRUE, finished |-> FALSE,
     merged |-> << >>, merge |-> "none",
     \* history of the run, read only by the properties
     id |-> n,            \* the press of Start that began the run
     tick |-> 0,          \* the last progress value its check_futures set
     invoked |-> [i \in 1..Len(urls) |-> 0],
     order |-> << >>,
     cancelled |-> FALSE,
     pendingAtCancel |-> {},
     runningAtCancel |-> {},
     inFlightAtFinish |-> {}]

NoDialog == [kind |-> "none", text |-> ""]
NoAttempt == [number |-> 0]

Init ==
    /\ cancel_event = FALSE
    /\ start_button = "normal"
    /\ cancel_button = "disabled"
    /\ progress = [value |-> 0, maximum |-> 100]   \* ttk.Progressbar defaults
    /\ runs = << >>
    /\ files = {}
    /\ dialog = NoDialog
    /\ attempt = NoAttempt

----------------------------------------------------------------------------
(* start_conversion: the Start button's command, on the GUI thread.        *)

\* variant: the renderer path is not checked
StartStageNoRendererCheck(inp) ==
    IF ~inp.csv_isfile THEN "csv"
    ELSE IF ~inp.config_ok THEN "configuration"
    ELSE IF ReadRaises(inp) THEN "read"
    ELSE IF ReadUrls(inp) = << >> THEN "no_urls"
    ELSE IF ~inp.margins_numeric THEN "margins"
    ELSE IF ~inp.workers_numeric THEN "max_workers"
    ELSE IF inp.workers <= 0 THEN "executor"
    ELSE "submitted"

\* where start_conversion stops: the first check that fails, in code order
StartStage(inp) ==
    IF ~inp.csv_isfile THEN "csv"
    ELSE IF ~inp.wk_isfile THEN "wkhtmltopdf"
    ELSE IF ~inp.config_ok THEN "configuration"
    ELSE IF ReadRaises(inp) THEN "read"
    ELSE IF ReadUrls(inp) = << >> THEN "no_urls"
    ELSE IF ~inp.margins_numeric THEN "margins"
    ELSE IF ~inp.workers_numeric THEN "max_workers"
    ELSE IF inp.workers <= 0 THEN "executor"   \* ThreadPoolExecutor raises ValueError
    ELSE "submitted"

StartDialog(stage) ==
    CASE stage = "csv" ->
           [kind |-> "showerror", text |-> "Please select a valid CSV file."]
      [] stage = "wkhtmltopdf" ->
           [kind |-> "showerror",
            text |-> "Please select a valid wkhtmltopdf executable path."]
      [] stage = "configuration" ->
           [kind |-> "showerror", text |-> "Error configuring pdfkit"]
      [] stage = "read" ->
           [kind |-> "showerror", text |-> "Error reading CSV file"]
      [] stage = "no_urls" ->
           [kind |-> "showinfo", text |-> "No URLs found in CSV file."]
      [] stage = "margins" ->
           [kind |-> "showerror", text |-> "Margins must be numeric values."]
      [] stage = "max_workers" ->
           [kind |-> "showerror", text |-> "Max Workers must be a numeric value."]

\* the stages that return through the "show a message, reset the buttons" exits
ReturnsEarly(stage) ==
    stage \in {"csv", "wkhtmltopdf", "configuration", "read", "no_urls",
               "margins", "max_workers"}

\* the stages that are reached only after progress_bar["maximum"] = total_urls
SetsMaximum(stage) == stage \in {"margins", "max_workers", "executor", "submitted"}

\* output_dir falls back to os.getcwd() when the entry is no directory
OutputDir(inp) == IF inp.outdir_isdir THEN "output_dir" ELSE Cwd

\* the submit loop: output_paths[i] for i, url in enumerate(urls, start=1)
SubmittedPaths(inp, urls) ==
    [i \in 1..Len(urls) |->
        OutputPath(inp.mode, inp.scheme, OutputDir(inp), urls[i], i, inp.clock[i])]

\* a run is over when check_futures has stopped and no task is left: nothing
\* refers to its closure, its executor or its futures any more
Over(run) == run.finished /\ Done(run) = Indices(run)
RECURSIVE Live(_)
Live(rs) == IF rs = << >> THEN << >>
            ELSE IF Over(Head(rs)) THEN Live(Tail(rs))
            ELSE <<Head(rs)>> \o Live(Tail(rs))

\* variant: the flag is left as the last run left it
EventKept(flag) == flag

\* cancel_event.clear()
EventClear(flag) == FALSE

StartConversion(inp) ==
    /\ start_button = "normal"
    /\ attempt.number < MaxStarts
    /\ cancel_event' = EventClear(cancel_event)
    /\ attempt' = [number |-> attempt.number + 1, input |-> inp]
    /\ LET stage == StartStage(inp)
           urls == ReadUrls(inp)
       IN  /\ progress' = [value |-> 0,
                           maximum |-> IF SetsMaximum(stage) THEN Len(urls)
                                       ELSE progress.maximum]
           /\ IF ReturnsEarly(stage)
              THEN /\ dialog' = StartDialog(stage)
                   /\ start_button' = "normal"
                   /\ cancel_button' = "disabled"
                   /\ runs' = Live(runs)
              ELSE /\ dialog' = dialog
                   /\ start_button' = "disabled"
                   /\ cancel_button' = "normal"
                   /\ runs' = IF stage = "submitted"
                              THEN Append(Live(runs),
                                          NewRun(attempt.number + 1, inp, urls,
                                                 SubmittedPaths(inp, urls)))
                              ELSE Live(runs)
    /\ UNCHANGED files

----------------------------------------------------------------------------
(* process_url, on a worker thread of the run's executor.                  *)

\* what pdfkit.from_url does: it writes the file and returns, or it raises
RendererOutcomes == {"ok", "raised"}

\* the executor's queue is first-in first-out and at most max_workers threads
\* take work from it
NextTask(run) == CHOOSE i \in Pending(run) : \A j \in Pending(run) : i <= j
CanBegin(run) == Pending(run) # {} /\ Cardinality(Running(run)) < run.max_workers

\* the task's entry: "if cancel_event.is_set(): return None", else the renderer
\* is invoked
BeginTask(run, i, cancelled) ==
    IF cancelled
    THEN [run EXCEPT !.task[i] = "done", !.result[i] = "skipped",
                     !.order = Append(@, i)]
    ELSE [run EXCEPT !.task[i] = "running", !.invoked[i] = @ + 1]

\* variant: an exception of the renderer is not contained in its task, and the
\* tasks still queued are dropped
EndTaskAborting(run, i, outcome) ==
    [run EXCEPT !.task = [j \in Indices(run) |->
                            IF j = i \/ (outcome = "raised" /\ run.task[j] = "pending")
                            THEN "done" ELSE run.task[j]],
                !.result = [j \in Indices(run) |->
                            IF j = i THEN (IF outcome = "ok" THEN "ok" ELSE "error")
                            ELSE IF outcome = "raised" /\ run.task[j] = "pending"
                                 THEN "skipped" ELSE run.result[j]],
                !.order = Append(@, i)]

\* variant: a failed conversion is queued again
EndTaskRetrying(run, i, outcome) ==
    IF outcome = "raised"
    THEN [run EXCEPT !.task[i] = "pending"]
    ELSE [run EXCEPT !.task[i] = "done", !.result[i] = "ok",
                     !.order = Append(@, i)]

\* the renderer returns or raises; the except clause turns the exception into
\* the task's result
EndTask(run, i, outcome) ==
    [run EXCEPT !.task[i] = "done",
                !.result[i] = IF outcome = "ok" THEN "ok" ELSE "error",
                !.order = Append(@, i)]

WorkerBegin(r) ==
    /\ CanBegin(runs[r])
    /\ runs' = [runs EXCEPT ![r] = BeginTask(@, NextTask(@), cancel_event)]
    /\ UNCHANGED <<cancel_event, start_button, cancel_button, progress, files,
                   dialog, attempt>>

WorkerEnd(r, i, outcome) ==
    /\ i \in Running(runs[r])
    /\ runs' = [runs EXCEPT ![r] = EndTask(@, i, outcome)]
    /\ files' = IF outcome = "ok"
                THEN files \cup {runs[r].output_paths[i]}
                ELSE files
    /\ UNCHANGED <<cancel_event, start_button, cancel_button, progress, dialog,
                   attempt>>

----------------------------------------------------------------------------
(* finish_conversion and check_futures, on the GUI thread.                 *)

\* insertion sort of index/path pairs by index: results.sort(key=lambda x: x[0])
RECURSIVE InsertByIndex(_, _)
InsertByIndex(sorted, item) ==
    IF sorted = << >> THEN <<item>>
    ELSE IF item[1] < Head(sorted)[1] THEN <<item>> \o sorted
    ELSE <<Head(sorted)>> \o InsertByIndex(Tail(sorted), item)

RECURSIVE SortByIndex(_)
SortByIndex(items) ==
    IF items = << >> THEN << >>
    ELSE InsertByIndex(SortByIndex(SubSeq(items, 1, Len(items) - 1)),
                       items[Len(items)])

\* output_paths.items(): a dict keeps insertion order, and the submit loop
\* inserts the indices in order
Items(run) == [i \in 1..run.total |-> <<i, run.output_paths[i]>>]

\* variant: the pages in the order in which the tasks completed
ResultsInCompletionOrder(run) ==
    [k \in 1..Len(run.order) |-> <<run.order[k], run.output_paths[run.order[k]]>>]

Results(run) == SortByIndex(Items(run))

\* the indices whose file passes "if os.path.exists(pdf_path)", in results order
RECURSIVE Existing(_, _)
Existing(results, disk) ==
    IF results = << >> THEN << >>
    ELSE IF Head(results)[2] \in disk
         THEN <<Head(results)[1]>> \o Existing(Tail(results), disk)
         ELSE Existing(Tail(results), disk)

\* what the merge can do: appendFails = 0, or the position in the list of
\* existing files at which merger.append raises; writeFails: merger.write raises
MergeInputs(run, disk) ==
    {[appendFails |-> k, writeFails |-> w] :
        k \in 0..Len(Existing(Results(run), disk)), w \in BOOLEAN}

\* the pages appended before merger.append raised (all of them if it did not)
Appended(run, disk, m) ==
    LET ex == Existing(Results(run), disk)
    IN  IF m.appendFails = 0 THEN ex ELSE SubSeq(ex, 1, m.appendFails - 1)

\* how finish_conversion ends
FinishOutcome(run, m) ==
    IF run.mode = "merged"
    THEN IF m.appendFails # 0 THEN "append_raised"   \* outside the try block
         ELSE IF m.writeFails THEN "write_raised"    \* caught and reported
         ELSE "merged"
    ELSE "separate"

FinishDialog(outcome, old) ==
    CASE outcome = "merged" -> [kind |-> "showinfo", text |-> "Merged PDF created"]
      [] outcome = "write_raised" ->
           [kind |-> "showerror", text |-> "Error merging PDFs"]
      [] outcome = "separate" ->
           [kind |-> "showinfo", text |-> "Individual PDFs have been created."]
      [] outcome = "append_raised" -> old

\* the cleanup loop: os.remove of every path of output_paths; it is not reached
\* when merger.append raised
AfterCleanup(run, disk, outcome) ==
    IF outcome \in {"merged", "write_raised"}
    THEN disk \ {run.output_paths[i] : i \in Indices(run)}
    ELSE disk

\* variant: check_futures reschedules itself whatever it finds
KeepsPollingForever(run, cancelled) == TRUE

\* variant: check_futures stops at the first future that is done
KeepsPollingUntilFirst(run, cancelled) == Completed(run) = 0 /\ ~cancelled

\* check_futures goes on polling while tasks remain and the flag is clear
KeepsPolling(run, cancelled) == Completed(run) < run.total /\ ~cancelled

CheckFutures(r) ==
    /\ runs[r].poll
    /\ progress' = [progress EXCEPT !.value = Completed(runs[r])]
    /\ IF KeepsPolling(runs[r], cancel_event)
       THEN /\ runs' = [runs EXCEPT ![r].tick = Completed(runs[r])]
            /\ UNCHANGED <<files, dialog, start_button, cancel_button>>
       ELSE \E m \in MergeInputs(runs[r], files) :
              LET outcome == FinishOutcome(runs[r], m)
              IN  /\ runs' = [runs EXCEPT
                                ![r].poll = FALSE,
                                ![r].tick = Completed(runs[r]),
                                ![r].finished = TRUE,
                                ![r].merge = outcome,
                                ![r].merged =
                                    IF runs[r].mode = "merged"
                                    THEN Appended(runs[r], files, m) ELSE << >>,
                                ![r].inFlightAtFinish = Running(runs[r])]
                  /\ files' = AfterCleanup(runs[r], files, outcome)
                  /\ dialog' = FinishDialog(outcome, dialog)
                  /\ IF outcome = "append_raised"
                     THEN UNCHANGED <<start_button, cancel_button>>
                     ELSE /\ start_button' = "normal"
                          /\ cancel_button' = "disabled"
    /\ UNCHANGED <<cancel_event, attempt>>

----------------------------------------------------------------------------
(* cancel_conversion: the Cancel button's command.                         *)

\* variant: the press of Cancel ends the renderer invocations in flight
AfterCancelKilling(run) ==
    IF run.finished THEN run
    ELSE [run EXCEPT !.cancelled = TRUE,
                     !.pendingAtCancel = @ \cup Pending(run),
                     !.runningAtCancel = @ \cup Running(run),
                     !.task = [j \in Indices(run) |->
                                 IF run.task[j] = "running" THEN "done"
                                 ELSE run.task[j]],
                     !.result = [j \in Indices(run) |->
                                 IF run.task[j] = "running" THEN "skipped"
                                 ELSE run.result[j]]]

\* cancel_conversion touches neither the executor nor the futures: a run keeps
\* its tasks as they are, and its history notes what the press found
AfterCancel(run) ==
    IF run.finished THEN run
    ELSE [run EXCEPT !.cancelled = TRUE,
                     !.pendingAtCancel = @ \cup Pending(run),
                     !.runningAtCancel = @ \cup Running(run)]

CancelConversion ==
    /\ cancel_button = "normal"
    /\ cancel_event' = TRUE
    /\ start_button' = "normal"
    /\ cancel_button' = "disabled"
    /\ runs' = [r \in 1..Len(runs) |-> AfterCancel(runs[r])]
    /\ UNCHANGED <<progress, files, dialog, attempt>>

----------------------------------------------------------------------------
(* The form values a press of Start may find.                              *)

CellA == <<" ", "h", ":", "/", "/", "w", "w", "w", ".", "a", "/", "x">>
CellB == <<"/", "/", "a", " ">>
CellC == <<"x">>
CellD == <<"h", ":", "/", "/", "[", "b">>

Schemes == {"Sequential with Timestamp", "Website Domain"}

\* datetime.now() at the submission of each row: the second does not change,
\* or it changes after the first row
MaxUrls == IF MaxRows > MaxCsvRows THEN MaxRows ELSE MaxCsvRows
SameSecond == [i \in 1..MaxUrls |-> 0]
Clocks == {SameSecond, [i \in 1..MaxUrls |-> IF i = 1 THEN 0 ELSE 1]}

Form(csv, wk, rows, header, col, mode, outdir, scheme, workers, clock) ==
    [csv_isfile |-> csv, wk_isfile |-> wk, config_ok |-> TRUE,
     csv_readable |-> TRUE, rows |-> rows, header |-> header,
     col_numeric |-> TRUE, col |-> col, margins_numeric |-> TRUE,
     mode |-> mode, outdir_isdir |-> outdir, scheme |-> scheme,
     workers_numeric |-> TRUE, workers |-> workers, clock |-> clock]

\* the output settings: scheme and directory are read in separate mode only
OutputSettings ==
    {<<"merged", TRUE, "Sequential with Timestamp">>}
    \cup {<<"separate", d, sch>> : d \in BOOLEAN, sch \in Schemes}

\* CSV files of one column, for the runs whose tasks are followed to the end
UrlCells == <<CellA, CellB, CellC>>
OneColumn(n) == [k \in 1..n |-> <<UrlCells[((k - 1) % Len(UrlCells)) + 1]>>]

\* the forms of the runs that are followed: an empty file or MaxRows rows, both
\* modes, the Max Workers entries ws, and the two path defects
GuiForms(ws) ==
    {Form(TRUE, TRUE, OneColumn(n), FALSE, 0, o[1], o[2], o[3], w, SameSecond) :
        n \in {0, MaxRows},
        o \in {<<"merged", TRUE, "Sequential with Timestamp">>,
               <<"separate", FALSE, "Website Domain">>},
        w \in ws}
    \cup {Form(c[1], c[2], OneColumn(1), FALSE, 0, "merged", TRUE,
               "Sequential with Timestamp", 1, SameSecond) :
            c \in {<<FALSE, TRUE>>, <<TRUE, FALSE>>}}

GuiInputs == GuiForms({0, MaxWorkers})
RunInputs == GuiForms(0..MaxWorkers)

\* CSV files of rows of different lengths, for the reading of the form
RowChoices == {<< >>, <<CellA>>, <<CellB, CellC>>, <<CellD, CellA>>}
RECURSIVE FilesOfLength(_)
FilesOfLength(n) ==
    IF n = 0 THEN {<< >>}
    ELSE {Append(f, row) : f \in FilesOfLength(n - 1), row \in RowChoices}
CsvFiles == UNION {FilesOfLength(n) : n \in 0..MaxCsvRows}

Columns == {-1, 0, 1}

\* one defect at a time, and the two path defects together
Defects == {"none", "csv", "wkhtmltopdf", "csv_wkhtmltopdf", "configuration",
            "unreadable", "column", "margins", "max_workers"}

WithDefect(f, d) ==
    [f EXCEPT !.csv_isfile = d \notin {"csv", "csv_wkhtmltopdf"},
              !.wk_isfile = d \notin {"wkhtmltopdf", "csv_wkhtmltopdf"},
              !.config_ok = d # "configuration",
              !.csv_readable = d # "unreadable",
              !.col_numeric = d # "column",
              !.margins_numeric = d # "margins",
              !.workers_numeric = d # "max_workers"]

\* the clock is read under the timestamp scheme only
ClocksOf(o) == IF o[1] = "separate" /\ o[3] = "Sequential with Timestamp"
               THEN Clocks ELSE {SameSecond}

----------------------------------------------------------------------------
(* The specifications.                                                     *)

Start == \E inp \in GuiInputs : StartConversion(inp)
Cancel == CancelConversion
Begin == \E r \in 1..Len(runs) : WorkerBegin(r)
End == \E r \in 1..Len(runs) : \E i \in Indices(runs[r]) :
          \E outcome \in RendererOutcomes : WorkerEnd(r, i, outcome)
Poll == \E r \in 1..Len(runs) : CheckFutures(r)

Next == Start \/ Cancel \/ Begin \/ End \/ Poll

Spec == Init /\ [][Next]_vars

\* one run followed to its end: a single press of Start
StartFirst == \E inp \in RunInputs : attempt.number = 0 /\ StartConversion(inp)

NextRun == StartFirst \/ Cancel \/ Begin \/ End \/ Poll

SpecRun == Init /\ [][NextRun]_vars

\* one press of Start on any form: what start_conversion reads and submits
StartOnce ==
    /\ attempt.number = 0
    /\ \E rows \in CsvFiles, h \in BOOLEAN, c \in Columns, o \in OutputSettings,
          w \in {0, MaxWorkers}, d \in Defects :
          \E clock \in ClocksOf(o) :
             StartConversion(WithDefect(Form(TRUE, TRUE, rows, h, c, o[1], o[2],
                                             o[3], w, clock), d))

NextForm == StartOnce

SpecForm == Init /\ [][NextForm]_vars

----------------------------------------------------------------------------
(* src/main.py: process_conversion converts the rows one after the other   *)
(* and then finalizes.                                                     *)

\* pdf_files: the rows whose pdfkit.from_url returned, in row order
RECURSIVE MainPdfFiles(_, _)
MainPdfFiles(result, i) ==
    IF i > Len(result) THEN << >>
    ELSE IF result[i] = "ok" THEN <<i>> \o MainPdfFiles(result, i + 1)
    ELSE MainPdfFiles(result, i + 1)

\* how process_conversion ends: the merge is attempted only when mode is
\* "merged" and pdf_files is not empty; otherwise "No PDFs were created." is
\* logged and nothing is written or shown
MainFinishOutcome(mode, pdf_files, m) ==
    IF mode = "merged" /\ pdf_files # << >>
    THEN IF m.appendFails # 0 THEN "append_raised"
         ELSE IF m.writeFails THEN "write_raised"
         ELSE "merged"
    ELSE IF mode = "separate" THEN "separate"
    ELSE "no_pdfs"

----------------------------------------------------------------------------
(* Fair scheduling.                                                        *)

\* two presses of Start with the scheduling the program relies on: every
\* renderer invocation ends, the threads of an executor take the queued tasks,
\* and the Tk event loop fires every callback scheduled with root.after
LiveInputs ==
    {Form(TRUE, TRUE, OneColumn(MaxRows), FALSE, 0, "separate", TRUE,
          "Website Domain", 1, SameSecond)}

StartLive == \E inp \in LiveInputs : StartConversion(inp)

NextLive == StartLive \/ Cancel \/ Begin \/ End \/ Poll

BeginOf(n) == \E r \in 1..Len(runs) : runs[r].id = n /\ WorkerBegin(r)
EndOf(n) == \E r \in 1..Len(runs) : \E i \in Indices(runs[r]) :
               \E outcome \in RendererOutcomes :
                  runs[r].id = n /\ WorkerEnd(r, i, outcome)
PollOf(n) == \E r \in 1..Len(runs) : runs[r].id = n /\ CheckFutures(r)

Fairness ==
    \A n \in 1..MaxStarts :
        WF_vars(BeginOf(n)) /\ WF_vars(EndOf(n)) /\ WF_vars(PollOf(n))

SpecLive == Init /\ [][NextLive]_vars /\ Fairness

----------------------------------------------------------------------------
(* Properties.                                                             *)

StrictlyIncreasing(seq) ==
    \A a \in 1..Len(seq) : \A b \in 1..Len(seq) : a < b => seq[a] < seq[b]

\* C1: in merged mode, whatever the order in which the tasks complete,
\* finish_conversion appends the pages to the merger in strictly increasing
\* row-index order.
Thm_C1_MergeInRowOrder ==
    \A r \in 1..Len(runs) :
        /\ StrictlyIncreasing(runs[r].merged)
        /\ \A k \in 1..Len(runs[r].merged) : runs[r].merged[k] \in Indices(runs[r])

\* a merged run whose second row completed before its first, and whose merged
\* file holds both pages
Wit_C1_OutOfOrderCompletion ==
    \E r \in 1..Len(runs) :
        /\ runs[r].mode = "merged"
        /\ runs[r].finished
        /\ \E a \in 1..Len(runs[r].order) : \E b \in 1..Len(runs[r].order) :
              a < b /\ runs[r].order[a] > runs[r].order[b]
        /\ Len(runs[r].merged) >= 2

\* C2: a failed conversion does not abort the batch.  Unless Cancel was
\* pressed no URL is skipped, the workers go on taking the remaining URLs, the
\* poll that leads to the finalization stays scheduled, and when the run is
\* finalized every URL has been passed to the renderer.
Thm_C2_FailureDoesNotAbort ==
    \A r \in 1..Len(runs) :
        LET run == runs[r]
        IN  /\ ~run.cancelled =>
                 \A i \in Indices(run) : run.result[i] # "skipped"
            /\ Done(run) # Indices(run) => (Running(run) # {} \/ CanBegin(run))
            /\ ~run.finished => run.poll
            /\ (run.finished /\ ~run.cancelled) =>
                 \A i \in Indices(run) : run.invoked[i] = 1 /\ run.task[i] = "done"

\* a finalized run whose first conversion failed before the second one, which
\* succeeded, was taken from the queue
Wit_C2_FailedThenConverted ==
    \E r \in 1..Len(runs) :
        /\ runs[r].finished /\ ~runs[r].cancelled
        /\ runs[r].max_workers = 1
        /\ runs[r].result[1] = "error"
        /\ runs[r].result[2] = "ok"
        /\ runs[r].merge \in {"merged", "separate"}

\* C3 (as claimed): a URL whose task had not begun when Cancel was pressed is
\* never passed to the renderer, whatever follows.
Cex_C3_PendingAtCancelNeverRendered ==
    \A r \in 1..Len(runs) :
        \A i \in runs[r].pendingAtCancel : runs[r].invoked[i] = 0

DataRows(inp) ==
    IF inp.header /\ Len(inp.rows) >= 1
    THEN [k \in 1..(Len(inp.rows) - 1) |-> inp.rows[k + 1]]
    ELSE inp.rows

\* column c of a row, as Python indexes a list (a negative c counts from the end)
HasCell(row, c) == IF c >= 0 THEN c < Len(row) ELSE 0 - c <= Len(row)
Cell(row, c) == IF c >= 0 THEN row[c + 1] ELSE row[Len(row) + c + 1]

\* t is s without its leading and trailing blanks
IsStripOf(s, t) ==
    /\ t # << >> => (t[1] # " " /\ t[Len(t)] # " ")
    /\ \E a \in 0..Len(s) :
          /\ a + Len(t) <= Len(s)
          /\ \A k \in 1..Len(s) :
                IF k > a /\ k <= a + Len(t) THEN s[k] = t[k - a] ELSE s[k] = " "

\* C5 (as claimed): the submitted conversions are exactly one per data row, in
\* row order, the k-th for the stripped value of column c of the k-th data row.
Cex_C5_OneConversionPerDataRow ==
    (attempt.number = 1 /\ runs # << >>) =>
        LET data == DataRows(attempt.input)
            c == attempt.input.col
        IN  /\ Len(runs[1].urls) = Len(data)
            /\ \A k \in 1..Len(data) :
                  /\ HasCell(data[k], c)
                  /\ IsStripOf(Cell(data[k], c), runs[1].urls[k])

\* C5 (amended): the submitted conversions are exactly one per data row that
\* has more than c cells, in row order, the k-th for the stripped value of
\* column c of the k-th such row; every conversion is a queued task.
Thm_C5_OneConversionPerRowWithColumn ==
    (attempt.number = 1 /\ runs # << >>) =>
        LET data == DataRows(attempt.input)
            c == attempt.input.col
            HasColumn(row) == Len(row) > c
            sel == SelectSeq(data, HasColumn)
            run == runs[1]
        IN  /\ Len(run.urls) = Len(sel)
            /\ run.total = Len(sel)
            /\ DOMAIN run.task = 1..Len(sel)
            /\ DOMAIN run.output_paths = 1..Len(sel)
            /\ \A k \in 1..Len(sel) :
                  /\ HasCell(sel[k], c)
                  /\ IsStripOf(Cell(sel[k], c), run.urls[k])
                  /\ run.task[k] = "pending"

\* a run read with the header row skipped, from column 1, in which a row
\* without that column was left out and a cell was stripped
Wit_C5_HeaderColumnShortRow ==
    /\ attempt.number = 1 /\ runs # << >>
    /\ attempt.input.header /\ attempt.input.col = 1
    /\ Len(runs[1].urls) < Len(DataRows(attempt.input))
    /\ Len(runs[1].urls) >= 1
    /\ \E k \in 1..Len(attempt.input.rows) :
          /\ Len(attempt.input.rows[k]) = 2
          /\ attempt.input.rows[k][2] # runs[1].urls[1]
          /\ IsStripOf(attempt.input.rows[k][2], runs[1].urls[1])

\* a form with nothing wrong besides, possibly, its three paths
OtherwiseComplete(inp) ==
    /\ inp.config_ok /\ inp.csv_readable /\ inp.margins_numeric
    /\ inp.col_numeric /\ inp.col = 0 /\ ~inp.header
    /\ inp.workers_numeric /\ inp.workers >= 1
    /\ \E k \in 1..Len(inp.rows) : Len(inp.rows[k]) >= 1

\* C6 (as claimed): a CSV path that is no file, a renderer path that is no
\* file, or in separate mode an output directory that is no directory makes
\* start_conversion show an error and return with nothing submitted (stated
\* for the forms with nothing else wrong).
Cex_C6_ValidationAborts ==
    (attempt.number = 1 /\ OtherwiseComplete(attempt.input)) =>
        LET inp == attempt.input
        IN  (\/ ~inp.csv_isfile
             \/ ~inp.wk_isfile
             \/ (inp.mode = "separate" /\ ~inp.outdir_isdir))
            => (dialog.kind = "showerror" /\ runs = << >>)

\* C6 (amended): a CSV path that is no file or a renderer path that is no file
\* makes start_conversion show its error and return with the buttons idle and
\* nothing submitted; an output directory that is no directory does not abort
\* the run, whose files then go to the current working directory.
Thm_C6_PathValidationAborts ==
    attempt.number = 1 =>
        LET inp == attempt.input
        IN  /\ ~inp.csv_isfile =>
                 dialog = [kind |-> "showerror",
                           text |-> "Please select a valid CSV file."]
            /\ (inp.csv_isfile /\ ~inp.wk_isfile) =>
                 dialog = [kind |-> "showerror",
                           text |-> "Please select a valid wkhtmltopdf executable path."]
            /\ (~inp.csv_isfile \/ ~inp.wk_isfile) =>
                 /\ runs = << >>
                 /\ files = {}
                 /\ start_button = "normal" /\ cancel_button = "disabled"
            /\ (inp.mode = "separate" /\ ~inp.outdir_isdir /\ runs # << >>) =>
                 \A i \in Indices(runs[1]) : runs[1].output_paths[i].dir = Cwd

\* a press of Start with a renderer path that is no file, on a form that is
\* otherwise complete
Wit_C6_RendererPathRejected ==
    /\ attempt.number = 1
    /\ attempt.input.csv_isfile /\ ~attempt.input.wk_isfile
    /\ Len(attempt.input.rows) >= 1 /\ attempt.input.workers >= 1
    /\ dialog.kind = "showerror"
    /\ runs = << >>

\* C7 (as claimed): in merged mode a failure of the merge step, in
\* merger.append or in merger.write, is reported to the user, and the
\* temporary file of every conversion is removed whether the merge succeeded
\* or not (stated for the runs that end without Cancel, whose conversions
\* have all ended when finish_conversion is called).
Cex_C7_MergeFailureReportedAndCleaned ==
    \A r \in 1..Len(runs) :
        LET run == runs[r]
        IN  (run.finished /\ run.mode = "merged" /\ ~run.cancelled) =>
               /\ run.merge # "merged" => dialog.kind = "showerror"
               /\ \A i \in Indices(run) : run.output_paths[i] \notin files

\* C8: within one run the output paths of two different row indices differ, in
\* merged mode and under both naming schemes of separate mode.
Thm_C8_PathUniquePerIndex ==
    \A r \in 1..Len(runs) :
        \A i \in Indices(runs[r]) : \A j \in Indices(runs[r]) :
            i # j => runs[r].output_paths[i] # runs[r].output_paths[j]

\* a separate-mode run under the Website Domain scheme with two URLs of the
\* same domain, whose file names differ
Wit_C8_SameDomainTwice ==
    \E r \in 1..Len(runs) :
        /\ runs[r].mode = "separate" /\ runs[r].scheme = "Website Domain"
        /\ \E i \in Indices(runs[r]) : \E j \in Indices(runs[r]) :
              /\ i # j
              /\ UrlNetloc(runs[r].urls[i]) # << >>
              /\ BaseName(runs[r].urls[i]) = BaseName(runs[r].urls[j])
              /\ runs[r].output_paths[i].name # runs[r].output_paths[j].name

\* C9: every row is processed once and nothing is retried.  The renderer is
\* invoked at most once per row index of a run, a conversion that ended (well
\* or not) was invoked exactly once, and a run finalized without Cancel having
\* been pressed during it has invoked the renderer exactly once per row index.
Thm_C9_EachRowOnce ==
    \A r \in 1..Len(runs) :
        LET run == runs[r]
        IN  \A i \in Indices(run) :
               /\ run.invoked[i] <= 1
               /\ run.result[i] \in {"ok", "error"} =>
                     (run.task[i] = "done" /\ run.invoked[i] = 1)
               /\ run.task[i] = "pending" => run.invoked[i] = 0
               /\ (run.finished /\ ~run.cancelled) => run.invoked[i] = 1

\* a run started after an earlier run was cancelled, and finalized without
\* Cancel after one of its conversions failed, while the cancelled run still
\* has a task
Wit_C9_SecondRunWithFailure ==
    /\ Len(runs) = 2
    /\ runs[1].cancelled /\ Done(runs[1]) # Indices(runs[1])
    /\ runs[2].finished /\ ~runs[2].cancelled
    /\ \E i \in Indices(runs[2]) : runs[2].result[i] = "error"
    /\ \A i \in Indices(runs[2]) : runs[2].invoked[i] = 1

\* the renderer invocations in flight, over all runs
RECURSIVE InFlight(_)
InFlight(rs) == IF rs = << >> THEN 0
                ELSE Cardinality(Running(Head(rs))) + InFlight(Tail(rs))

\* C10 (as claimed): the number of renderer invocations in flight never
\* exceeds the Max Workers value of a run (here: the largest among the runs).
Cex_C10_InFlightBounded ==
    \A r \in 1..Len(runs) :
        (\A q \in 1..Len(runs) : runs[q].max_workers <= runs[r].max_workers)
            => InFlight(runs) <= runs[r].max_workers

\* C11 (as claimed): the merged document of a run holds pages of the
\* successful conversions of that run only; a URL whose conversion failed
\* contributes no page (stated for the runs that end without Cancel).
Cex_C11_MergedOnlyOwnSuccesses ==
    \A r \in 1..Len(runs) :
        ~runs[r].cancelled =>
            \A k \in 1..Len(runs[r].merged) :
                runs[r].result[runs[r].merged[k]] = "ok"

\* C12: at every poll tick of a run, check_futures sets the progress counter
\* to the number of that run's futures that are done (converted, failed or
\* skipped alike); the value is not below the one the run's previous tick set,
\* it does not exceed the run's total, and it is the run's new last value.
Thm_C12_ProgressCountsDone ==
    [][\A r \in 1..Len(runs) :
          CheckFutures(r) =>
              /\ progress'.value = Cardinality(Done(runs[r]))
              /\ progress'.value >= runs[r].tick
              /\ progress'.value <= runs[r].total
              /\ runs'[r].id = runs[r].id
              /\ runs'[r].tick = progress'.value]_vars

\* a run whose last tick counted two done futures, one of a conversion that
\* failed and one of a task skipped after Cancel
Wit_C12_FailedAndSkippedCounted ==
    \E r \in 1..Len(runs) :
        /\ runs[r].tick = 2 /\ progress.value = 2
        /\ runs[r].result[1] = "error"
        /\ runs[r].result[2] = "skipped"

\* C13: the cancel flag carries nothing from one run into the next.  The flag
\* is clear for as long as a run in which Cancel was not pressed is active,
\* such a run skips no URL, and when it is finalized it has passed every one
\* of its URLs to the renderer, whatever happened to the runs before it.
Thm_C13_FlagDoesNotPersist ==
    \A r \in 1..Len(runs) :
        LET run == runs[r]
        IN  ~run.cancelled =>
               /\ ~run.finished => ~cancel_event
               /\ \A i \in Indices(run) :
                     /\ run.result[i] # "skipped"
                     /\ run.task[i] = "done" => run.invoked[i] = 1
                     /\ run.finished => run.invoked[i] = 1

\* a run started after Cancel made the run before it skip a URL; the second
\* run was finalized without Cancel, every URL rendered
Wit_C13_RunAfterCancelledRun ==
    /\ Len(runs) = 2
    /\ runs[1].cancelled /\ \E i \in Indices(runs[1]) : runs[1].result[i] = "skipped"
    /\ runs[2].finished /\ ~runs[2].cancelled
    /\ runs[2].total = MaxRows
    /\ \A i \in Indices(runs[2]) : runs[2].invoked[i] = 1 /\ runs[2].result[i] = "ok"

\* C14: every run that submitted its tasks is eventually finalized, and it is
\* finalized once: from then on its check_futures is not scheduled and what
\* finish_conversion did for it does not change.
Thm_C14_EventuallyFinalizedOnce ==
    /\ \A n \in 1..MaxStarts :
          (\E r \in 1..Len(runs) : runs[r].id = n)
             ~> (\A r \in 1..Len(runs) : runs[r].id = n => runs[r].finished)
    /\ [][\A r \in 1..Len(runs) : \A q \in 1..Len(runs') :
             (runs[r].finished /\ runs'[q].id = runs[r].id) =>
                 /\ ~runs[r].poll /\ ~runs'[q].poll
                 /\ runs'[q].finished
                 /\ runs'[q].merge = runs[r].merge
                 /\ runs'[q].merged = runs[r].merged]_vars

\* a run that was cancelled with a task still queued and outlived the next
\* press of Start: all its URLs were rendered, its last tick found every future
\* done and finalized it, and the second run is finalized too
Wit_C14_BothRunsFinalized ==
    /\ Len(runs) = 2
    /\ runs[1].cancelled /\ runs[1].pendingAtCancel # {}
    /\ \A i \in Indices(runs[1]) : runs[1].invoked[i] = 1
    /\ runs[1].finished /\ runs[1].tick = runs[1].total
    /\ runs[2].finished

\* C15: a run during which the cancel flag was never set is finalized only when
\* all its futures are done: the tick that called finish_conversion counted
\* every future, and no worker of the run was in flight or is left to run.
Thm_C15_FinishAfterAllDone ==
    \A r \in 1..Len(runs) :
        LET run == runs[r]
        IN  (run.finished /\ ~run.cancelled) =>
               /\ run.tick = run.total
               /\ run.inFlightAtFinish = {}
               /\ Running(run) = {} /\ Pending(run) = {}

\* a run with workers side by side, finalized without Cancel after its
\* conversions ended out of order, while a conversion of the cancelled run
\* before it is still in flight
Wit_C15_FinalizedBesideStraggler ==
    /\ Len(runs) = 2
    /\ runs[1].cancelled /\ Running(runs[1]) # {}
    /\ runs[2].finished /\ ~runs[2].cancelled
    /\ runs[2].max_workers = MaxWorkers
    /\ runs[2].order = <<2, 1>>

\* C16 (as claimed): runs never overlap.  The Start button is enabled only when
\* no task of an earlier run is pending or running and no check_futures of an
\* earlier run is scheduled, and no two runs have a conversion in flight on the
\* same output path.
Cex_C16_RunsNeverOverlap ==
    /\ start_button = "normal" =>
          \A r \in 1..Len(runs) :
              Pending(runs[r]) = {} /\ Running(runs[r]) = {} /\ ~runs[r].poll
    /\ \A r \in 1..Len(runs) : \A q \in 1..Len(runs) :
          r # q =>
             \A i \in Running(runs[r]) : \A j \in Running(runs[q]) :
                 runs[r].output_paths[i] # runs[q].output_paths[j]

\* C17 (as claimed): whenever start_conversion ends without having scheduled
\* check_futures, whatever the invalid entry, the buttons are idle (Start
\* enabled, Cancel disabled) and no task has been submitted.
Cex_C17_NoPollMeansIdle ==
    (attempt.number = 1 /\ ~(\E r \in 1..Len(runs) : runs[r].poll)) =>
        /\ start_button = "normal" /\ cancel_button = "disabled"
        /\ runs = << >>

\* C18 (as claimed): in merged mode, when no URL of the run produced a PDF
\* (every conversion failed or was skipped), no merged file is written, no
\* success message is shown, and the run ends as process_conversion of main.py
\* ends on the same results.
Cex_C18_NothingMergedWhenNoPdf ==
    \A r \in 1..Len(runs) :
        LET run == runs[r]
        IN  (/\ run.finished /\ run.mode = "merged"
             /\ \A i \in Indices(run) : run.result[i] \in {"error", "skipped"}) =>
               /\ run.merge # "merged"
               /\ dialog.kind # "showinfo"
               /\ \A m \in MergeInputs(run, files) :
                     run.merge = MainFinishOutcome(run.mode,
                                                   MainPdfFiles(run.result, 1), m)

====
